---- MODULE Spec2Model ----
(***************************************************************************)
(* Monte Carlo pricers for Asian and Lookback options (src/src/exotics.py). *)
(*                                                                         *)
(* The two classes AsianOptionPricer and LookbackOptionPricer are modelled  *)
(* as one state machine: the constructor, the call of calculate_price, the  *)
(* steps of the loop of _simulate_asset_price, and the reduction of the     *)
(* path matrix to the returned price.                                       *)
(*                                                                         *)
(* The code computes in IEEE-754 binary64.  The model computes in a binary  *)
(* floating-point format of the same kind with a short significand and a    *)
(* short exponent range: round to nearest, ties to even, gradual underflow, *)
(* overflow to infinity, NaN.  A finite float is the integer number of      *)
(* units of 2^-FracBits it holds.                                           *)
(***************************************************************************)
EXTENDS Integers, Sequences, FiniteSets

(***************************************************************************)
(* Bounds of the model.                                                     *)
(***************************************************************************)
\* Bits of the significand (binary64 has 53).
MantissaBits == 3
\* One unit is 2^-FracBits: the smallest positive (subnormal) float.
FracBits == 3
\* The largest float is (2^MantissaBits - 1) * 2^MaxShift units.
MaxShift == 6
\* num_steps and num_simulations of the pricers whose paths are flat.
MaxSteps == 3
MaxSims == 3
\* num_steps and num_simulations of the pricers whose paths are random.
MaxVolSteps == 2
MaxVolSims == 2
\* calculate_price calls on one pricer.
MaxCalls == 2

(***************************************************************************)
(* The floating-point format.                                               *)
(***************************************************************************)
RECURSIVE Pow2(_)
Pow2(k) == IF k <= 0 THEN 1 ELSE 2 * Pow2(k - 1)

Scale == Pow2(FracBits)
MaxFinite == (Pow2(MantissaBits) - 1) * Pow2(MaxShift)
Inf == MaxFinite + 1
NaN == MaxFinite + 2
\* The content of memory np.empty hands out and nothing has written yet.
Uninit == MaxFinite + 3

IsNaN(x) == x = NaN
IsInf(x) == x = Inf \/ x = -Inf
IsFinite(x) == -MaxFinite <= x /\ x <= MaxFinite

Abs(x) == IF x < 0 THEN -x ELSE x

\* The number of low bits a magnitude of q units loses to the significand.
RECURSIVE Shift(_)
Shift(q) == IF q < Pow2(MantissaBits) THEN 0 ELSE 1 + Shift(q \div 2)

\* a/b >= 0 units rounded to the nearest float, ties to the even significand.
RoundPos(a, b) ==
    LET sh == Pow2(Shift(a \div b))
        m == a \div (b * sh)
        rem2 == 2 * (a - m * b * sh)
        up == rem2 > b * sh \/ (rem2 = b * sh /\ m % 2 = 1)
        r == (IF up THEN m + 1 ELSE m) * sh
    IN IF r > MaxFinite THEN Inf ELSE r

\* a/b units (b > 0) rounded to the nearest float.
Round(a, b) == IF a >= 0 THEN RoundPos(a, b) ELSE -RoundPos(-a, b)

\* The finite floats.
Finite == {Round(n, 1) : n \in 0..MaxFinite} \cup {-Round(n, 1) : n \in 0..MaxFinite}

\* A Python int as a float.
FromInt(n) == Round(n * Scale, 1)

Neg(x) == IF IsNaN(x) THEN NaN ELSE -x

Add(x, y) ==
    IF IsNaN(x) \/ IsNaN(y) THEN NaN
    ELSE IF IsInf(x) /\ IsInf(y) THEN (IF x = y THEN x ELSE NaN)
    ELSE IF IsInf(x) THEN x
    ELSE IF IsInf(y) THEN y
    ELSE Round(x + y, 1)

Sub(x, y) == Add(x, Neg(y))

Mul(x, y) ==
    IF IsNaN(x) \/ IsNaN(y) THEN NaN
    ELSE IF IsInf(x) \/ IsInf(y)
         THEN (IF x = 0 \/ y = 0 THEN NaN
               ELSE IF (x > 0) = (y > 0) THEN Inf ELSE -Inf)
    ELSE IF (x >= 0) = (y >= 0) THEN Round(Abs(x) * Abs(y), Scale)
    ELSE Round(-(Abs(x) * Abs(y)), Scale)

\* numpy's division of floats: no exception, x/0 is an infinity or NaN.
Div(x, y) ==
    IF IsNaN(x) \/ IsNaN(y) THEN NaN
    ELSE IF IsInf(x) THEN (IF IsInf(y) THEN NaN ELSE IF y >= 0 THEN x ELSE -x)
    ELSE IF IsInf(y) THEN 0
    ELSE IF y = 0 THEN (IF x = 0 THEN NaN ELSE IF x > 0 THEN Inf ELSE -Inf)
    ELSE IF (x >= 0) = (y > 0) THEN Round(Abs(x) * Scale, Abs(y))
    ELSE Round(-(Abs(x) * Scale), Abs(y))

\* Whether the significand of the finite float v >= 0 is even.
RECURSIVE EvenMantissa(_)
EvenMantissa(v) == IF v < Pow2(MantissaBits) THEN v % 2 = 0 ELSE EvenMantissa(v \div 2)

\* np.sqrt, correctly rounded; NaN below zero.
Sqrt(x) ==
    IF IsNaN(x) \/ x < 0 THEN NaN
    ELSE IF x = Inf THEN Inf
    ELSE LET t == x * Scale
             below == {v \in Finite : v >= 0 /\ v * v <= t}
             lo == CHOOSE v \in below : \A w \in below : w <= v
             above == {v \in Finite : v > lo}
         IN IF above = {} THEN lo
            ELSE LET hi == CHOOSE v \in above : \A w \in above : v <= w
                     mid2 == (lo + hi) * (lo + hi)
                 IN IF mid2 < 4 * t THEN hi
                    ELSE IF mid2 > 4 * t THEN lo
                    ELSE IF EvenMantissa(lo) THEN lo ELSE hi

\* floor(x / Scale) of a finite float.
Floor(x) == IF x >= 0 THEN x \div Scale ELSE -((-x + Scale - 1) \div Scale)

\* np.exp.  The unit of its argument is taken to be ln 2, so that it is the
\* power of two: exact at the integers and interpolated linearly between two
\* of them, then rounded.  It is positive and monotone, Exp(0) = 1, it
\* overflows to Inf and underflows to 0.
Exp(x) ==
    IF IsNaN(x) THEN NaN
    ELSE IF x = Inf THEN Inf
    ELSE IF x = -Inf THEN 0
    ELSE LET k == Floor(x)
             j == x - k * Scale
         IN IF k > MaxShift + MantissaBits THEN Inf
            ELSE IF k < -(FracBits + 2) THEN 0
            ELSE IF k >= 0 THEN Round(Pow2(k) * (Scale + j), 1)
            ELSE Round(Scale + j, Pow2(-k))

\* np.maximum and np.minimum of two floats: a NaN operand gives NaN.
Maximum(x, y) == IF IsNaN(x) \/ IsNaN(y) THEN NaN ELSE IF x >= y THEN x ELSE y
Minimum(x, y) == IF IsNaN(x) \/ IsNaN(y) THEN NaN ELSE IF x <= y THEN x ELSE y

\* x >= y on floats: false when either is NaN.
Geq(x, y) == ~IsNaN(x) /\ ~IsNaN(y) /\ x >= y

\* np.sum of a one-dimensional array: the elements added from the first on.
RECURSIVE Sum(_)
Sum(a) == IF a = <<>> THEN 0 ELSE Add(Sum(SubSeq(a, 1, Len(a) - 1)), a[Len(a)])

\* np.mean of a one-dimensional array: its sum over its length (NaN when empty).
Mean(a) == Div(Sum(a), FromInt(Len(a)))

\* The number of columns of a matrix kept as the sequence of its rows.
NumCols(A) == IF A = <<>> THEN 0 ELSE Len(A[1])

\* Column j of a matrix, from its first row to its last.
Column(A, j) == [k \in 1..Len(A) |-> A[k][j]]

\* np.mean(A, axis=0): the mean of every column.
MeanAxis0(A) == [j \in 1..NumCols(A) |-> Mean(Column(A, j))]

\* np.max and np.min of a one-dimensional array; a NaN element gives NaN.
RECURSIVE Max(_)
Max(a) == IF Len(a) = 1 THEN a[1] ELSE Maximum(Max(SubSeq(a, 1, Len(a) - 1)), a[Len(a)])

RECURSIVE Min(_)
Min(a) == IF Len(a) = 1 THEN a[1] ELSE Minimum(Min(SubSeq(a, 1, Len(a) - 1)), a[Len(a)])

\* np.max(A, axis=0) and np.min(A, axis=0).
MaxAxis0(A) == [j \in 1..NumCols(A) |-> Max(Column(A, j))]
MinAxis0(A) == [j \in 1..NumCols(A) |-> Min(Column(A, j))]

(***************************************************************************)
(* The arguments a caller constructs a pricer with.                         *)
(***************************************************************************)
\* The float nearest to n/d.
Fl(n, d) == Round(n * Scale, d)

One == Fl(1, 1)
Half == Fl(1, 2)

\* What np.random.standard_normal may draw for one variate.
Variates == {-One, One}

Classes == {"AsianOptionPricer", "LookbackOptionPricer"}

Args(cls, S0, strike, r, sigma, T, N, M, kind) ==
    [cls |-> cls, S0 |-> S0, strike |-> strike, risk_free_rate |-> r,
     volatility |-> sigma, maturity |-> T, num_steps |-> N,
     num_simulations |-> M, option_type |-> kind]

\* Prices and strikes of the pricers with zero volatility and zero rate.
FlatPrices == {Fl(3, 4), One, Fl(7, 4)}

\* Zero volatility and zero rate: every path is flat.
FlatArgs ==
    {Args(c, s, k, 0, 0, One, n, m, t) :
        c \in Classes, s \in FlatPrices, k \in FlatPrices,
        n \in 0..MaxSteps, m \in 1..MaxSims, t \in {"C", "P", "X"}}

\* Flat paths with the price or the strike at the largest float: twice the
\* payoff overflows.
HugeArgs ==
    {Args(c, s, k, 0, 0, One, 2, m, t) :
        c \in Classes, s \in {One, MaxFinite}, k \in {One, MaxFinite},
        m \in 1..2, t \in {"C", "P"}}

\* Positive volatility: the paths follow the variates drawn.
VolArgs ==
    {Args(c, One, One, r, One, T, n, m, t) :
        c \in Classes, r \in {0, One}, T \in {One, Fl(2, 1)},
        n \in 1..MaxVolSteps, m \in 1..MaxVolSims, t \in {"C", "P"}}

\* Zero volatility and a negative rate: the discount factor is above 1.
RateArgs ==
    {Args(c, One, k, -One, 0, One, n, 1, t) :
        c \in Classes, k \in {Half, One}, n \in 1..2, t \in {"C", "P"}}

\* Zero volatility and a rate so large that the growth of the price
\* overflows and the discount factor underflows.
OverflowArgs ==
    {Args(c, One, k, Fl(8, 1), 0, One, 2, 1, t) :
        c \in Classes, k \in {Half, One}, t \in {"C", "P"}}

\* One parameter out of its range, the others in it.
InvalidArgs ==
    {Args(c, s, One, 0, One, One, 1, 1, "C") : c \in Classes, s \in {0, -One}}
    \cup {Args(c, One, k, 0, One, One, 1, 1, "P") : c \in Classes, k \in {0, -One}}
    \cup {Args(c, One, One, 0, -One, One, 1, 1, "C") : c \in Classes}
    \cup {Args(c, One, One, One, 0, 0, 1, 1, "C") : c \in Classes}
    \cup {Args(c, One, One, 0, One, One, 1, 0, "C") : c \in Classes}

ArgSet ==
    FlatArgs \cup HugeArgs \cup VolArgs \cup RateArgs \cup OverflowArgs \cup InvalidArgs

(***************************************************************************)
(* The state.                                                               *)
(***************************************************************************)
VARIABLES
    args,      \* the arguments the caller passes to the constructor
    self,      \* <<>> before construction, then <<the pricer's attributes>>
    pc,        \* "new", "ready", "loop" (in _simulate_asset_price), "returned", "raised"
    calls,     \* calculate_price calls started so far
    dt,        \* local of _simulate_asset_price
    S,         \* local of _simulate_asset_price: the rows of the matrix, S[i + 1] is the code's S[i]
    i,         \* the loop variable of _simulate_asset_price
    ret,       \* <<>>, or <<the value the last call returned>>
    exc,       \* "", or the exception the last call raised
    rng,       \* variates drawn so far from the shared random source
    rngAtCall, \* rng when the current call started
    simCalls,  \* invocations of _simulate_asset_price by the current call
    batches,   \* standard_normal calls of the current call
    written    \* how many times the current call has written each row of S

vars == <<args, self, pc, calls, dt, S, i, ret, exc, rng, rngAtCall, simCalls, batches, written>>

Init ==
    /\ args \in ArgSet
    /\ self = <<>>
    /\ pc = "new"
    /\ calls = 0
    /\ dt = 0
    /\ S = <<>>
    /\ i = 0
    /\ ret = <<>>
    /\ exc = ""
    /\ rng = 0
    /\ rngAtCall = 0
    /\ simCalls = 0
    /\ batches = 0
    /\ written = <<>>

\* __init__ of both classes: the eight arguments are stored, none is checked.
PricerInit ==
    /\ pc = "new"
    /\ self' = <<[cls |-> args.cls,
                  S0 |-> args.S0,
                  strike |-> args.strike,
                  risk_free_rate |-> args.risk_free_rate,
                  volatility |-> args.volatility,
                  maturity |-> args.maturity,
                  num_steps |-> args.num_steps,
                  num_simulations |-> args.num_simulations,
                  option_type |-> args.option_type]>>
    /\ pc' = "ready"
    /\ UNCHANGED <<args, calls, dt, S, i, ret, exc, rng, rngAtCall, simCalls, batches, written>>

\* A call ends in an exception: its locals are gone.
Raise(e) ==
    /\ pc' = "raised"
    /\ exc' = e
    /\ ret' = <<>>
    /\ dt' = 0
    /\ S' = <<>>
    /\ i' = 0
    /\ written' = <<>>

\* A row of M copies of x.
FullRow(M, x) == [j \in 1..M |-> x]

\* SimulateEnter with the division compiled not to raise: dt is an infinity
\* or NaN and the simulation goes on.
SimulateEnterNoRaise ==
    LET p == self[1] IN
    /\ dt' = Div(p.maturity, FromInt(p.num_steps))
    /\ S' = [k \in 1..(p.num_steps + 1) |->
               IF k = 1 THEN FullRow(p.num_simulations, p.S0)
               ELSE FullRow(p.num_simulations, Uninit)]
    /\ written' = [k \in 1..(p.num_steps + 1) |-> IF k = 1 THEN 1 ELSE 0]
    /\ i' = 0
    /\ pc' = "loop"
    /\ ret' = <<>>
    /\ exc' = ""
    /\ simCalls' = 1

\* _simulate_asset_price up to its loop: dt, the matrix np.empty allocates and
\* S[0] = S0.  The compiled division raises ZeroDivisionError on num_steps = 0.
SimulateEnter ==
    LET p == self[1] IN
    IF p.num_steps = 0
    THEN /\ Raise("ZeroDivisionError")
         /\ simCalls' = 1
    ELSE /\ dt' = Div(p.maturity, FromInt(p.num_steps))
         /\ S' = [k \in 1..(p.num_steps + 1) |->
                    IF k = 1 THEN FullRow(p.num_simulations, p.S0)
                    ELSE FullRow(p.num_simulations, Uninit)]
         /\ written' = [k \in 1..(p.num_steps + 1) |-> IF k = 1 THEN 1 ELSE 0]
         /\ i' = 0
         /\ pc' = "loop"
         /\ ret' = <<>>
         /\ exc' = ""
         /\ simCalls' = 1

\* A caller may call calculate_price on a constructed pricer that is not in a call.
CanCall(cls) ==
    /\ pc \in {"ready", "returned", "raised"}
    /\ self[1].cls = cls
    /\ calls < MaxCalls

\* AsianOptionPricer.calculate_price, to the loop of the simulation.
AsianCalculatePrice ==
    /\ CanCall("AsianOptionPricer")
    /\ calls' = calls + 1
    /\ rngAtCall' = rng
    /\ batches' = 0
    /\ SimulateEnter
    /\ UNCHANGED <<args, self, rng>>

\* LookbackCalculatePrice with the check of the option type left out.
LookbackCalculatePriceNoCheck ==
    /\ CanCall("LookbackOptionPricer")
    /\ calls' = calls + 1
    /\ rngAtCall' = rng
    /\ batches' = 0
    /\ SimulateEnter
    /\ UNCHANGED <<args, self, rng>>

\* LookbackOptionPricer.calculate_price, to the loop of the simulation: the
\* option type is checked first.
LookbackCalculatePrice ==
    /\ CanCall("LookbackOptionPricer")
    /\ calls' = calls + 1
    /\ rngAtCall' = rng
    /\ batches' = 0
    /\ IF self[1].option_type \notin {"C", "P"}
       THEN /\ Raise("ValueError")
            /\ simCalls' = 0
       ELSE SimulateEnter
    /\ UNCHANGED <<args, self, rng>>

\* The factor of one step of one path, for the variate z.
StepFactor(p, d, z) ==
    Exp(Add(Mul(Sub(p.risk_free_rate, Mul(Half, Mul(p.volatility, p.volatility))), d),
            Mul(Mul(p.volatility, Sqrt(d)), z)))

\* NextRow with the factor stored and the previous row forgotten.
NextRowFactorOnly(p, d, prev, z) == [j \in 1..Len(prev) |-> StepFactor(p, d, z[j])]

\* The row the loop body writes from row `prev` and the variates z.
NextRow(p, d, prev, z) == [j \in 1..Len(prev) |-> Mul(prev[j], StepFactor(p, d, z[j]))]

\* TargetRow off by one: S[i] is written, not S[i + 1].
TargetRowOffByOne(k) == k + 1

\* The index, in S, of the row the loop body writes in iteration k.
TargetRow(k) == k + 2

\* One iteration of the loop of _simulate_asset_price.
SimulateStep ==
    /\ pc = "loop"
    /\ i < self[1].num_steps
    /\ \E z \in [1..self[1].num_simulations -> Variates] :
          S' = [S EXCEPT ![TargetRow(i)] = NextRow(self[1], dt, S[i + 1], z)]
    /\ written' = [written EXCEPT ![TargetRow(i)] = @ + 1]
    /\ rng' = rng + self[1].num_simulations
    /\ batches' = batches + 1
    /\ i' = i + 1
    /\ UNCHANGED <<args, self, pc, calls, dt, ret, exc, rngAtCall, simCalls>>

\* exp(-r T)
DiscountFactor(p) == Exp(Mul(Neg(p.risk_free_rate), p.maturity))

\* RowsFrom1 with the initial price left in the averaging window.
RowsFrom0(A) == A

\* The rows S[1:] of the matrix.
RowsFrom1(A) == Tail(A)

\* The payoffs of AsianOptionPricer.calculate_price for the matrix A.
AsianPayoff(p, A) ==
    LET avg_price == MeanAxis0(RowsFrom1(A)) IN
    IF p.option_type = "C"
    THEN [j \in 1..Len(avg_price) |-> Maximum(Sub(avg_price[j], p.strike), 0)]
    ELSE [j \in 1..Len(avg_price) |-> Maximum(Sub(p.strike, avg_price[j]), 0)]

\* The value AsianOptionPricer.calculate_price returns for the matrix A.
AsianValue(p, A) == Mul(DiscountFactor(p), Mean(AsianPayoff(p, A)))

\* LookbackPayoff with the initial price left out of the extremum search.
LookbackPayoffSkipsRow0(p, A) ==
    LET M_max == MaxAxis0(Tail(A))
        M_min == MinAxis0(Tail(A))
    IN IF p.option_type = "C"
       THEN [j \in 1..Len(M_max) |-> Maximum(Sub(M_max[j], p.strike), 0)]
       ELSE [j \in 1..Len(M_min) |-> Maximum(Sub(p.strike, M_min[j]), 0)]

\* The payoffs of LookbackOptionPricer.calculate_price for the matrix A.
LookbackPayoff(p, A) ==
    LET M_max == MaxAxis0(A)
        M_min == MinAxis0(A)
    IN IF p.option_type = "C"
       THEN [j \in 1..Len(M_max) |-> Maximum(Sub(M_max[j], p.strike), 0)]
       ELSE [j \in 1..Len(M_min) |-> Maximum(Sub(p.strike, M_min[j]), 0)]

\* The value LookbackOptionPricer.calculate_price returns for the matrix A.
LookbackValue(p, A) == Mul(DiscountFactor(p), Mean(LookbackPayoff(p, A)))

\* A call returns v: its locals are gone, the pricer keeps none of them.
Return(v) ==
    /\ pc' = "returned"
    /\ ret' = <<v>>
    /\ exc' = ""
    /\ dt' = 0
    /\ S' = <<>>
    /\ i' = 0
    /\ written' = <<>>

\* AsianReturn with the matrix kept on the pricer (self.S = S).
AsianReturnKeepsMatrix ==
    /\ pc = "loop"
    /\ self[1].cls = "AsianOptionPricer"
    /\ i = self[1].num_steps
    /\ Return(AsianValue(self[1], S))
    /\ self' = <<[cls |-> self[1].cls,
                  S0 |-> self[1].S0,
                  strike |-> self[1].strike,
                  risk_free_rate |-> self[1].risk_free_rate,
                  volatility |-> self[1].volatility,
                  maturity |-> self[1].maturity,
                  num_steps |-> self[1].num_steps,
                  num_simulations |-> self[1].num_simulations,
                  option_type |-> self[1].option_type,
                  S |-> S]>>
    /\ UNCHANGED <<args, calls, rng, rngAtCall, simCalls, batches>>

\* AsianOptionPricer.calculate_price from the return of the simulation on.
AsianReturn ==
    /\ pc = "loop"
    /\ self[1].cls = "AsianOptionPricer"
    /\ i = self[1].num_steps
    /\ Return(AsianValue(self[1], S))
    /\ UNCHANGED <<args, self, calls, rng, rngAtCall, simCalls, batches>>

\* LookbackOptionPricer.calculate_price from the return of the simulation on.
LookbackReturn ==
    /\ pc = "loop"
    /\ self[1].cls = "LookbackOptionPricer"
    /\ i = self[1].num_steps
    /\ Return(LookbackValue(self[1], S))
    /\ UNCHANGED <<args, self, calls, rng, rngAtCall, simCalls, batches>>

Next ==
    \/ PricerInit
    \/ AsianCalculatePrice
    \/ LookbackCalculatePrice
    \/ SimulateStep
    \/ AsianReturn
    \/ LookbackReturn

Spec == Init /\ [][Next]_vars

\* The values of the variables.
TypeOK ==
    /\ args \in ArgSet
    /\ pc \in {"new", "ready", "loop", "returned", "raised"}
    /\ calls \in 0..MaxCalls
    /\ i \in 0..(MaxSteps + MaxVolSteps)
    /\ exc \in {"", "ValueError", "ZeroDivisionError"}
    /\ Len(ret) <= 1

(***************************************************************************)
(* The claims.                                                              *)
(***************************************************************************)
KindOK(a) == a.option_type \in {"C", "P"}

\* The ranges section 3 of the specification gives the parameters.
ValidParameters(a) ==
    /\ a.S0 > 0 /\ a.strike > 0 /\ a.maturity > 0 /\ a.volatility >= 0
    /\ a.num_steps >= 1 /\ a.num_simulations >= 1

\* Zero volatility and zero rate.
Flat(a) == a.volatility = 0 /\ a.risk_free_rate = 0

\* The payoff on the price x: max(x - strike, 0) for a Call, max(strike - x, 0)
\* for a Put.
PayoffOn(a, x) ==
    IF a.option_type = "C"
    THEN Maximum(Sub(x, a.strike), 0)
    ELSE Maximum(Sub(a.strike, x), 0)

\* max(S0 - strike, 0) for a Call, max(strike - S0, 0) for a Put.
Intrinsic(a) == PayoffOn(a, a.S0)

\* The floating-point mean of n copies of x.
RECURSIVE SumOfCopies(_, _)
SumOfCopies(x, n) == IF n = 0 THEN 0 ELSE Add(SumOfCopies(x, n - 1), x)

MeanOfCopies(x, n) == Div(SumOfCopies(x, n), FromInt(n))

\* The sum of rows 1..n of run j of the matrix A (A[k + 1] is row k).
RECURSIVE RunSum(_, _, _)
RunSum(A, j, n) == IF n = 0 THEN 0 ELSE Add(RunSum(A, j, n - 1), A[n + 1][j])

\* The largest and the smallest of rows 0..n of run j of the matrix A.
RECURSIVE RunMax(_, _, _)
RunMax(A, j, n) == IF n = 0 THEN A[1][j] ELSE Maximum(RunMax(A, j, n - 1), A[n + 1][j])

RECURSIVE RunMin(_, _, _)
RunMin(A, j, n) == IF n = 0 THEN A[1][j] ELSE Minimum(RunMin(A, j, n - 1), A[n + 1][j])

\* The sum of the first m of the payoffs f.
RECURSIVE Total(_, _)
Total(f, m) == IF m = 0 THEN 0 ELSE Add(Total(f, m - 1), f[m])

\* The discount factor times the mean of the payoffs f of the runs 1..m.
Discounted(a, f, m) ==
    Mul(Exp(Mul(Neg(a.risk_free_rate), a.maturity)), Div(Total(f, m), FromInt(m)))

\* The payoff of run j of an Asian option: on the mean of rows 1..N.
AsianRunPayoff(a, A, j) ==
    LET mean == Div(RunSum(A, j, a.num_steps), FromInt(a.num_steps)) IN
    IF a.option_type = "C"
    THEN Maximum(Sub(mean, a.strike), 0)
    ELSE Maximum(Sub(a.strike, mean), 0)

\* The payoff of run j of a Lookback option: on the extremum of rows 0..N.
LookbackRunPayoff(a, A, j) ==
    IF a.option_type = "C"
    THEN Maximum(Sub(RunMax(A, j, a.num_steps), a.strike), 0)
    ELSE Maximum(Sub(a.strike, RunMin(A, j, a.num_steps)), 0)

\* A step in which calculate_price of class cls returns.
Returns(cls) == pc = "loop" /\ pc' = "returned" /\ args.cls = cls

\* C1: a pricer of either class whose option kind is neither 'C' nor 'P'
\* never returns a price from calculate_price.
C1_InvalidKindNeverPriced ==
    (pc # "new" /\ ~KindOK(args)) => pc # "returned"

\* C2 as stated: the construction of a pricer with num_steps = 0 ends in an
\* error, and no pricer object results.
C2_ZeroStepsNotConstructed ==
    args.num_steps = 0 => self = <<>>

\* C2 as amended: a pricer with num_steps = 0 never enters the loop of the
\* simulation, never allocates a matrix, draws no variate and returns no
\* price; every call of calculate_price on it ends in ZeroDivisionError (in
\* ValueError for a Lookback pricer of an invalid kind).
C2_ZeroStepsFailsAtFirstCall ==
    args.num_steps = 0 =>
        /\ pc \notin {"loop", "returned"}
        /\ ret = <<>>
        /\ S = <<>>
        /\ rng = 0
        /\ calls > 0 =>
              /\ pc = "raised"
              /\ exc = IF args.cls = "LookbackOptionPricer" /\ ~KindOK(args)
                       THEN "ValueError" ELSE "ZeroDivisionError"

\* C2's case: a constructed pricer with num_steps = 0 whose call has raised
\* ZeroDivisionError.
C2_Witness ==
    /\ args.num_steps = 0
    /\ self = <<args>>
    /\ pc = "raised"
    /\ exc = "ZeroDivisionError"

\* C3: with a parameter out of its range no price is returned, no matrix is
\* filled and no variate is drawn.
C3_InvalidParametersRejected ==
    ~ValidParameters(args) => (ret = <<>> /\ S = <<>> /\ rng = 0)

\* C4: in the loop of the simulation and at its return, for valid N and M,
\* the matrix has N + 1 rows of M columns, row 0 is S0 in every column, the
\* rows 0..i have been written exactly once and hold prices, and the rows
\* after them have not been written.
C4_MatrixShape ==
    (pc = "loop" /\ ValidParameters(args)) =>
        /\ Len(S) = args.num_steps + 1
        /\ Len(written) = args.num_steps + 1
        /\ \A k \in 1..Len(S) :
              /\ Len(S[k]) = args.num_simulations
              /\ written[k] = (IF k <= i + 1 THEN 1 ELSE 0)
              /\ \A j \in 1..Len(S[k]) : (S[k][j] = Uninit) = (k > i + 1)
        /\ \A j \in 1..args.num_simulations : S[1][j] = args.S0

\* C4's case: the simulation of random paths is at its return, and the rows
\* differ from row 0.
C4_Witness ==
    /\ pc = "loop"
    /\ ValidParameters(args)
    /\ args.volatility > 0
    /\ args.num_steps = 2
    /\ args.num_simulations = 2
    /\ i = args.num_steps
    /\ S[2] # S[1]
    /\ S[3] # S[2]

\* C5 as stated: with zero volatility and zero rate both pricers return the
\* intrinsic value.
C5_FlatPriceIsIntrinsic ==
    (pc = "returned" /\ Flat(args) /\ ValidParameters(args) /\ KindOK(args)) =>
        ret[1] = Intrinsic(args)

\* The two means of calculate_price add without rounding: at most two equal
\* terms each, and twice the price and twice the strike are finite.
SumsExact(a) ==
    /\ a.num_simulations <= 2
    /\ a.cls = "AsianOptionPricer" => a.num_steps <= 2
    /\ IsFinite(Add(a.S0, a.S0))
    /\ IsFinite(Add(a.strike, a.strike))

\* C5 as amended: with zero volatility and zero rate every path is flat at
\* S0 and each pricer returns the floating-point mean of the M equal payoffs
\* of its runs: the intrinsic value for a Lookback run, the payoff on the
\* floating-point mean of N copies of S0 for an Asian run.  The Lookback
\* pricer returns exactly 0 when S0 = strike, and both pricers return exactly
\* the intrinsic value when the sums of their means are exact.
C5_FlatPriceIsIntrinsicWhenSumsExact ==
    (pc # "new" /\ Flat(args) /\ ValidParameters(args) /\ KindOK(args)) =>
        /\ pc = "loop" =>
              \A k \in 1..(i + 1) : \A j \in 1..args.num_simulations : S[k][j] = args.S0
        /\ (pc = "returned" /\ args.cls = "LookbackOptionPricer") =>
              /\ ret[1] = MeanOfCopies(Intrinsic(args), args.num_simulations)
              /\ args.S0 = args.strike => ret[1] = 0
        /\ (pc = "returned" /\ args.cls = "AsianOptionPricer") =>
              ret[1] = MeanOfCopies(PayoffOn(args, MeanOfCopies(args.S0, args.num_steps)),
                                    args.num_simulations)
        /\ (pc = "returned" /\ SumsExact(args)) => ret[1] = Intrinsic(args)

\* C5's case: an Asian pricer with flat paths of two steps and two runs has
\* returned the intrinsic value, which is not 0.
C5_Witness ==
    /\ pc = "returned"
    /\ Flat(args) /\ ValidParameters(args) /\ KindOK(args) /\ SumsExact(args)
    /\ args.cls = "AsianOptionPricer"
    /\ args.num_steps = 2
    /\ args.num_simulations = 2
    /\ ret[1] = Intrinsic(args)
    /\ ret[1] > 0

\* C6: for valid parameters and a valid kind the returned price is >= 0.
C6_PriceNonNegative ==
    (pc = "returned" /\ ValidParameters(args) /\ KindOK(args)) => Geq(ret[1], 0)

\* C7: the price AsianOptionPricer.calculate_price returns is the discount
\* factor times the mean over the runs of the payoff on the mean of rows
\* 1..N of the run.
C7_AsianPrice ==
    [][(Returns("AsianOptionPricer") /\ KindOK(args)) =>
          ret'[1] = Discounted(args, [j \in 1..args.num_simulations |->
                                         AsianRunPayoff(args, S, j)],
                               args.num_simulations)]_vars

\* C7's case: an Asian pricer with random paths has returned a price that is
\* neither 0 nor the intrinsic value.
C7_Witness ==
    /\ pc = "returned"
    /\ args.cls = "AsianOptionPricer"
    /\ args.volatility > 0
    /\ args.num_steps = 2
    /\ args.num_simulations = 2
    /\ IsFinite(ret[1])
    /\ ret[1] > 0
    /\ ret[1] # Intrinsic(args)

\* C8 as stated: the price LookbackOptionPricer.calculate_price returns is
\* the discount factor times the mean over the runs of the payoff on the
\* extremum of rows 0..N of the run, and it is never below the discount
\* factor times the intrinsic value.
C8_LookbackPriceAboveIntrinsic ==
    [][(Returns("LookbackOptionPricer") /\ ValidParameters(args)) =>
          /\ ret'[1] = Discounted(args, [j \in 1..args.num_simulations |->
                                            LookbackRunPayoff(args, S, j)],
                                  args.num_simulations)
          /\ Geq(ret'[1], Mul(Exp(Mul(Neg(args.risk_free_rate), args.maturity)),
                              Intrinsic(args)))]_vars

\* C8 as amended: the price is the discount factor times the mean over the
\* runs of the payoff on the extremum of rows 0..N of the run, and the payoff
\* of every run is NaN or at least the intrinsic value.
C8_LookbackPayoffsAboveIntrinsic ==
    [][(Returns("LookbackOptionPricer") /\ ValidParameters(args)) =>
          /\ ret'[1] = Discounted(args, [j \in 1..args.num_simulations |->
                                            LookbackRunPayoff(args, S, j)],
                                  args.num_simulations)
          /\ \A j \in 1..args.num_simulations :
                \/ IsNaN(LookbackRunPayoff(args, S, j))
                \/ Geq(LookbackRunPayoff(args, S, j), Intrinsic(args))]_vars

\* C8's case: a Lookback Call with random paths has returned a price above
\* the intrinsic value 0: a path rose above the initial price.
C8_Witness ==
    /\ pc = "returned"
    /\ args.cls = "LookbackOptionPricer"
    /\ ValidParameters(args)
    /\ args.volatility > 0
    /\ args.option_type = "C"
    /\ args.num_steps = 2
    /\ Intrinsic(args) = 0
    /\ IsFinite(ret[1])
    /\ ret[1] > 0

\* C9: a constructed pricer holds the eight arguments it was constructed
\* with and nothing else, and outside a call no matrix and no other local of
\* the simulation exists.
C9_ParametersUnchanged ==
    pc # "new" =>
        /\ self = <<args>>
        /\ pc # "loop" => (S = <<>> /\ written = <<>> /\ dt = 0 /\ i = 0)

\* C9's case: the second call on a pricer has returned, and both calls drew
\* variates.
C9_Witness ==
    /\ pc = "returned"
    /\ calls = 2
    /\ rngAtCall > 0
    /\ rng > rngAtCall

\* C10: a Lookback pricer of an invalid kind never enters the simulation and
\* never draws a variate, and its call raises ValueError with no value; a
\* call that returns has invoked the simulation once and drawn num_steps
\* batches of num_simulations variates; a call that raises returns no value.
C10_CheckBeforeSimulation ==
    /\ (args.cls = "LookbackOptionPricer" /\ ~KindOK(args)) =>
          /\ pc \notin {"loop", "returned"}
          /\ rng = 0
          /\ calls > 0 => (pc = "raised" /\ exc = "ValueError" /\ simCalls = 0)
    /\ pc = "returned" =>
          /\ Len(ret) = 1
          /\ exc = ""
          /\ simCalls = 1
          /\ batches = args.num_steps
          /\ rng = rngAtCall + args.num_steps * args.num_simulations
    /\ pc = "raised" => (ret = <<>> /\ exc # "" /\ rng = rngAtCall)

\* C10's case: the second call on a Lookback pricer of an invalid kind has
\* raised ValueError.
C10_Witness ==
    /\ args.cls = "LookbackOptionPricer"
    /\ ~KindOK(args)
    /\ args.num_steps > 0
    /\ pc = "raised"
    /\ exc = "ValueError"
    /\ calls = 2
====
